---- MODULE Spec2Model ----
(***************************************************************************)
(* A model of the eBay auction tracker: the DatabaseHandler of             *)
(* ebay_auction_tracker/db.py (the four tables, save_items / save_item /   *)
(* get_seller_id / update_completed_items and their transaction scope) and *)
(* the run_daemon loop of ebay_auction_tracker/main.py.                    *)
(*                                                                         *)
(* Conventions.  A Python dict is a record that carries every key the code *)
(* reads; a key the dict does not hold has the value Absent.  d[k] on an   *)
(* absent key raises KeyError, d.get(k) yields None, stored as NULL.  All  *)
(* observed facts are strings (prices and counts included), surrogate keys *)
(* are naturals.  created_at / updated_at columns are left out: no         *)
(* statement of the code reads them.  A SERIAL key is modelled as the      *)
(* number of rows of the table plus one (rows are never deleted).          *)
(***************************************************************************)
EXTENDS Integers, Sequences, FiniteSets, TLC

VARIABLES sellers, auctions, item_specifics, bids, call, pc, running, fetched, log,
          conn, schema, elapsed, sleep_time, remaining, args

dbvars == <<sellers, auctions, item_specifics, bids>>
loopvars == <<pc, running, fetched, log, elapsed, sleep_time, remaining, args>>
timevars == <<elapsed, sleep_time, remaining>>
vars == <<sellers, auctions, item_specifics, bids, call, pc, running, fetched, log,
          conn, schema, elapsed, sleep_time, remaining, args>>

(* ------------------------------ bounds --------------------------------- *)

\* Longest batch handed to save_items / update_completed_items.
MaxBatchLen == 2
\* Most rows the bids table is let grow to (the table itself is unbounded).
MaxBidRows == 2

(* --------------------------- observed values --------------------------- *)

Absent == "<absent>"
NULL == "<null>"

\* dict.get(key): None (NULL once stored) for a key the dict does not hold.
Get(v) == IF v = Absent THEN NULL ELSE v
\* dict.get(key, default)
GetOr(v, default) == IF v = Absent THEN default ELSE v

\* F(v) with v evaluated once.  (TLC evaluates a LET definition where it is
\* used, and inside ENABLED once for every use; a bound variable holds a
\* value.)
Eval(v, F(_)) == CHOOSE y \in {F(x) : x \in {v}} : TRUE

(* ------------------------------ the store ------------------------------ *)

\* The tables of initialize_schema as one value: the state a transaction
\* works on.  sellers.ebay_user_id and auctions.item_id are UNIQUE NOT NULL,
\* item_specifics is UNIQUE on (auction_id, spec_key), bids has no unique
\* constraint besides its SERIAL primary key.
Store(s, a, i, b) == [sellers |-> s, auctions |-> a, item_specifics |-> i, bids |-> b]

EmptyStore == Store({}, {}, {}, {})

\* The outcome of a run of statements: the store as the statements left it,
\* whether they all succeeded (ok = FALSE: an exception was raised) and the
\* surrogate key they return.
Done(d, id) == [d |-> d, ok |-> TRUE, id |-> id]
Raise(d) == [d |-> d, ok |-> FALSE, id |-> 0]

\* A SERIAL primary key.
NextId(rows) == Cardinality(rows) + 1

\* get_seller_id: SELECT by ebay_user_id, then UPDATE rating and feedback of
\* the row found, or INSERT a new row (the INSERT is subject to UNIQUE NOT
\* NULL on ebay_user_id).  seller_data['ebay_user_id'] raises KeyError on a
\* dict without the key.
get_seller_id_blind_insert(d, seller_data) ==
    Done([d EXCEPT !.sellers = @ \cup
            {[id |-> NextId(d.sellers),
              ebay_user_id |-> seller_data.ebay_user_id,
              rating |-> Get(seller_data.rating),
              feedback_score |-> Get(seller_data.feedback_score)]}],
         NextId(d.sellers))

\* get_seller_id as it would be if it returned the result of its SELECT in
\* either branch: for a seller it has just inserted, the key of no row.
get_seller_id_select_result(d, seller_data) ==
    IF seller_data.ebay_user_id = Absent THEN Raise(d)
    ELSE LET result == {s \in d.sellers : s.ebay_user_id = seller_data.ebay_user_id}
         IN  IF result # {}
             THEN LET row == CHOOSE s \in result : TRUE
                  IN  Done([d EXCEPT !.sellers =
                              {IF s.id = row.id
                                 THEN [s EXCEPT !.rating = Get(seller_data.rating),
                                                !.feedback_score = Get(seller_data.feedback_score)]
                                 ELSE s : s \in @}],
                           row.id)
             ELSE Done([d EXCEPT !.sellers = @ \cup
                          {[id |-> NextId(d.sellers),
                            ebay_user_id |-> seller_data.ebay_user_id,
                            rating |-> Get(seller_data.rating),
                            feedback_score |-> Get(seller_data.feedback_score)]}],
                       0)

get_seller_id(d, seller_data) ==
    IF seller_data.ebay_user_id = Absent THEN Raise(d)
    ELSE LET result == {s \in d.sellers : s.ebay_user_id = seller_data.ebay_user_id}
         IN  IF result # {}
             THEN LET row == CHOOSE s \in result : TRUE
                  IN  Done([d EXCEPT !.sellers =
                              {IF s.id = row.id
                                 THEN [s EXCEPT !.rating = Get(seller_data.rating),
                                                !.feedback_score = Get(seller_data.feedback_score)]
                                 ELSE s : s \in @}],
                           row.id)
             ELSE IF \E s \in d.sellers : s.ebay_user_id = seller_data.ebay_user_id
                  THEN Raise(d)
                  ELSE Done([d EXCEPT !.sellers = @ \cup
                               {[id |-> NextId(d.sellers),
                                 ebay_user_id |-> seller_data.ebay_user_id,
                                 rating |-> Get(seller_data.rating),
                                 feedback_score |-> Get(seller_data.feedback_score)]}],
                            NextId(d.sellers))

\* The UPDATE as it would be with search_pattern, auction_end_time and
\* auction_start_time in its SET list.
update_auction_all_fields(d, row, item, seller_id) ==
    IF item.title = Absent \/ item.url = Absent \/ item.auction_status = Absent
    THEN Raise(d)
    ELSE Done([d EXCEPT !.auctions =
                 {IF a.id = row.id
                    THEN [a EXCEPT !.title = item.title,
                                   !.url = item.url,
                                   !.seller_id = seller_id,
                                   !.search_pattern = Get(item.search_pattern),
                                   !.description = Get(item.description),
                                   !.condition = Get(item.condition),
                                   !.current_price = Get(item.current_price),
                                   !.buy_it_now_price = Get(item.buy_it_now_price),
                                   !.shipping_cost = Get(item.shipping_cost),
                                   !.num_bids = GetOr(item.num_bids, "0"),
                                   !.auction_end_time = Get(item.auction_end_time),
                                   !.auction_start_time = Get(item.auction_start_time),
                                   !.auction_status = item.auction_status]
                    ELSE a : a \in @}],
              row.id)

\* save_item, lines 171-203: UPDATE of the auction row found by item_id.
\* item['title'], item['url'] and item['auction_status'] raise KeyError when
\* missing; search_pattern, the end and start times and item_id are not in
\* the SET list.
update_auction(d, row, item, seller_id) ==
    IF item.title = Absent \/ item.url = Absent \/ item.auction_status = Absent
    THEN Raise(d)
    ELSE Done([d EXCEPT !.auctions =
                 {IF a.id = row.id
                    THEN [a EXCEPT !.title = item.title,
                                   !.url = item.url,
                                   !.seller_id = seller_id,
                                   !.description = Get(item.description),
                                   !.condition = Get(item.condition),
                                   !.current_price = Get(item.current_price),
                                   !.buy_it_now_price = Get(item.buy_it_now_price),
                                   !.shipping_cost = Get(item.shipping_cost),
                                   !.num_bids = GetOr(item.num_bids, "0"),
                                   !.auction_status = item.auction_status]
                    ELSE a : a \in @}],
              row.id)

\* save_item, lines 204-234: INSERT of a new auction row (UNIQUE NOT NULL on
\* item_id; title, url, search_pattern, auction_end_time and auction_status
\* are read with item[...]).
insert_auction(d, item, seller_id) ==
    IF \/ item.title = Absent \/ item.url = Absent \/ item.search_pattern = Absent
       \/ item.auction_end_time = Absent \/ item.auction_status = Absent
       \/ \E a \in d.auctions : a.item_id = item.item_id
    THEN Raise(d)
    ELSE Done([d EXCEPT !.auctions = @ \cup
                 {[id |-> NextId(d.auctions),
                   item_id |-> item.item_id,
                   title |-> item.title,
                   url |-> item.url,
                   seller_id |-> seller_id,
                   search_pattern |-> item.search_pattern,
                   description |-> Get(item.description),
                   condition |-> Get(item.condition),
                   current_price |-> Get(item.current_price),
                   buy_it_now_price |-> Get(item.buy_it_now_price),
                   shipping_cost |-> Get(item.shipping_cost),
                   num_bids |-> GetOr(item.num_bids, "0"),
                   auction_end_time |-> item.auction_end_time,
                   auction_start_time |-> Get(item.auction_start_time),
                   auction_status |-> item.auction_status]}],
              NextId(d.auctions))

\* The INSERT INTO item_specifics without its ON CONFLICT clause, on a table
\* without the unique index.
upsert_item_specific_insert_only(rows, auction_id, key, value) ==
    rows \cup {[auction_id |-> auction_id, spec_key |-> key, spec_value |-> value]}

\* save_item, lines 239-247: INSERT ... ON CONFLICT (auction_id, spec_key)
\* DO UPDATE SET spec_value = EXCLUDED.spec_value, for one key.
upsert_item_specific(rows, auction_id, key, value) ==
    IF \E r \in rows : r.auction_id = auction_id /\ r.spec_key = key
    THEN {IF r.auction_id = auction_id /\ r.spec_key = key
            THEN [r EXCEPT !.spec_value = value] ELSE r : r \in rows}
    ELSE rows \cup {[auction_id |-> auction_id, spec_key |-> key, spec_value |-> value]}

\* save_item, lines 237-247: the loop over item['item_specifics'].items().  A
\* missing and an empty mapping are both the empty function here, as the
\* code skips both.
RECURSIVE save_item_specifics(_, _, _, _)
save_item_specifics(rows, auction_id, mapping, keys) ==
    IF keys = {} THEN rows
    ELSE LET key == CHOOSE k \in keys : TRUE
         IN  Eval(upsert_item_specific(rows, auction_id, key, mapping[key]),
                  LAMBDA upserted :
                     save_item_specifics(upserted, auction_id, mapping, keys \ {key}))

\* The arbiter of INSERT INTO bids ... ON CONFLICT DO NOTHING: a row
\* conflicts when it violates a unique index of the table, and the only one
\* bids has is its primary key (lines 77-85).
bids_conflict(rows, row) == \E r \in rows : r.id = row.id

\* save_item, lines 252-268: one INSERT INTO bids.  bid['amount'] and
\* bid['time'] raise KeyError when missing.
insert_bid(d, auction_id, bid, winning) ==
    IF bid.amount = Absent \/ bid.time = Absent THEN Raise(d)
    ELSE LET row == [id |-> NextId(d.bids),
                     auction_id |-> auction_id,
                     bid_amount |-> bid.amount,
                     bid_time |-> bid.time,
                     bidder_id |-> Get(bid.bidder_id),
                     winning_bid |-> winning]
         IN  IF bids_conflict(d.bids, row) THEN Done(d, 0)
             ELSE Done([d EXCEPT !.bids = @ \cup {row}], row.id)

\* save_item, lines 250-268: the loop over item['bids'], which stops at the
\* first bid that raises.
RECURSIVE save_item_bids(_, _, _)
save_item_bids(d, auction_id, bs) ==
    IF bs = <<>> THEN Done(d, auction_id)
    ELSE Eval(insert_bid(d, auction_id, Head(bs),
                         GetOr(Head(bs).winning_bid, "false") = "true"),
              LAMBDA r : IF r.ok THEN save_item_bids(r.d, auction_id, Tail(bs)) ELSE r)

\* save_item with the caller's connection (should_commit = False): seller,
\* auction, item specifics, bids, in that order; the first statement that
\* raises ends it, and whatever ran before stays in the open transaction.
\* A listing without 'seller' is a listing whose seller has no
\* 'ebay_user_id': both raise KeyError before the first statement.
save_item_auction(d, item, seller_id) ==
    LET result == {a \in d.auctions : a.item_id = item.item_id}
    IN  IF result # {}
        THEN update_auction(d, CHOOSE r \in result : TRUE, item, seller_id)
        ELSE insert_auction(d, item, seller_id)

save_item(d, item) ==
    Eval(get_seller_id(d, item.seller), LAMBDA s :
        IF ~s.ok THEN s
        ELSE IF item.item_id = Absent THEN Raise(s.d)
        ELSE Eval(save_item_auction(s.d, item, s.id), LAMBDA a :
                IF ~a.ok THEN a
                ELSE Eval([a.d EXCEPT !.item_specifics =
                              save_item_specifics(@, a.id, item.item_specifics,
                                                  DOMAIN item.item_specifics)],
                          LAMBDA w : save_item_bids(w, a.id, item.bids))))

\* The outcome of a batch: the store it leaves committed, whether the call
\* returned (ok) or raised, and the position in the batch of the item that
\* raised (0: none), which the code logs.
Returned(d) == [d |-> d, ok |-> TRUE, failed |-> 0]
Raised(d, k) == [d |-> d, ok |-> FALSE, failed |-> k]

\* save_each as it would be with each item's exception caught and logged in
\* the loop, the transaction left as the failed item's statements left it.
RECURSIVE save_each_skip_failed(_, _, _)
save_each_skip_failed(d, items, k) ==
    IF items = <<>> THEN Returned(d)
    ELSE Eval(save_item(d, Head(items)),
              LAMBDA r : save_each_skip_failed(r.d, Tail(items), k + 1))

\* save_each as it would be if the batch were written from its last item to
\* its first.
RECURSIVE save_each_last_first(_, _, _)
save_each_last_first(d, items, k) ==
    IF items = <<>> THEN Returned(d)
    ELSE Eval(save_each_last_first(d, Tail(items), k + 1),
              LAMBDA t : IF ~t.ok THEN t
                         ELSE Eval(save_item(t.d, Head(items)),
                                   LAMBDA r : IF r.ok THEN Returned(r.d)
                                              ELSE Raised(r.d, k)))

\* save_items, lines 143-144: the loop over the batch inside one
\* transaction; k is the position of Head(items) in the batch.
RECURSIVE save_each(_, _, _)
save_each(d, items, k) ==
    IF items = <<>> THEN Returned(d)
    ELSE Eval(save_item(d, Head(items)),
              LAMBDA r : IF r.ok THEN save_each(r.d, Tail(items), k + 1)
                         ELSE Raised(r.d, k))

\* save_items: the batch runs in one transaction: conn.commit() after the
\* last item, conn.rollback() and re-raise on the first exception.  An empty
\* batch returns at once.
\* save_items as it would be with a commit after each item: the items before
\* the one that raised stay committed.
RECURSIVE save_each_committing(_, _, _)
save_each_committing(d, items, k) ==
    IF items = <<>> THEN Returned(d)
    ELSE Eval(save_item(d, Head(items)),
              LAMBDA r : IF r.ok THEN save_each_committing(r.d, Tail(items), k + 1)
                         ELSE Raised(d, k))

save_items_commit_each(stored, items) ==
    IF items = <<>> THEN Returned(stored)
    ELSE save_each_committing(stored, items, 1)

save_items_commit_on_error(stored, items) ==
    save_each(stored, items, 1)

save_items(stored, items) ==
    IF items = <<>> THEN Returned(stored)
    ELSE Eval(save_each(stored, items, 1),
              LAMBDA r : IF r.ok THEN r ELSE Raised(stored, r.failed))

\* update_completed_item as it would be if the whole bid history of the
\* completion were inserted, the last bid with winning_bid TRUE.
RECURSIVE insert_history(_, _, _)
insert_history(d, auction_id, bs) ==
    IF bs = <<>> THEN Done(d, 0)
    ELSE Eval(insert_bid(d, auction_id, Head(bs), Len(bs) = 1),
              LAMBDA r : IF r.ok THEN insert_history(r.d, auction_id, Tail(bs)) ELSE r)

update_completed_item_whole_history(d, item) ==
    IF item.item_id = Absent THEN Raise(d)
    ELSE LET result == {a \in d.auctions : a.item_id = item.item_id}
         IN  Eval([d EXCEPT !.auctions =
                     {IF a \in result
                        THEN [a EXCEPT !.auction_status = "completed",
                                       !.current_price = Get(item.final_price),
                                       !.num_bids = GetOr(item.num_bids, "0")]
                        ELSE a : a \in @}],
                  LAMBDA u :
                     IF result # {} /\ item.bids # <<>>
                     THEN insert_history(u, (CHOOSE r \in result : TRUE).id, item.bids)
                     ELSE Done(u, 0))

\* update_completed_items, lines 304-344, for one item: UPDATE ... WHERE
\* item_id = %s RETURNING id, then the INSERT of the last bid of the history
\* with winning_bid TRUE when a row was updated and bids is not empty.
update_completed_item(d, item) ==
    IF item.item_id = Absent THEN Raise(d)
    ELSE LET result == {a \in d.auctions : a.item_id = item.item_id}
         IN  Eval([d EXCEPT !.auctions =
                     {IF a \in result
                        THEN [a EXCEPT !.auction_status = "completed",
                                       !.current_price = Get(item.final_price),
                                       !.num_bids = GetOr(item.num_bids, "0")]
                        ELSE a : a \in @}],
                  LAMBDA u :
                     IF result # {} /\ item.bids # <<>>
                     THEN insert_bid(u, (CHOOSE r \in result : TRUE).id,
                                     item.bids[Len(item.bids)], TRUE)
                     ELSE Done(u, 0))

\* update_completed_items, lines 302-344: the loop over the batch.
RECURSIVE update_each(_, _, _)
update_each(d, items, k) ==
    IF items = <<>> THEN Returned(d)
    ELSE Eval(update_completed_item(d, Head(items)),
              LAMBDA r : IF r.ok THEN update_each(r.d, Tail(items), k + 1)
                         ELSE Raised(r.d, k))

\* update_completed_items: one transaction for the batch, as save_items.
update_completed_items_commit_on_error(stored, items) ==
    update_each(stored, items, 1)

update_completed_items(stored, items) ==
    IF items = <<>> THEN Returned(stored)
    ELSE Eval(update_each(stored, items, 1),
              LAMBDA r : IF r.ok THEN r ELSE Raised(stored, r.failed))

(* ----------------------------- the connection -------------------------- *)

\* self.conn of a DatabaseHandler: state is "none" (self.conn is None),
\* "open", "lost" (the server end is gone and psycopg2 has not noticed:
\* conn.closed is still 0) or "closed" (conn.closed is not 0); in_txn tells
\* whether a transaction is open on it (autocommit is off, so the first
\* statement opens one and commit() or rollback() ends it); held is the
\* number of connections the handler has opened and that are not closed.
NoConnection == [state |-> "none", in_txn |-> FALSE, held |-> 0]
OpenConnection == [state |-> "open", in_txn |-> FALSE, held |-> 1]

\* _get_connection as it would be without its test of self.conn.
_get_connection_always_connecting(c, up) ==
    IF up THEN [conn |-> [state |-> "open", in_txn |-> FALSE, held |-> c.held + 1],
                ok |-> TRUE]
    ELSE [conn |-> c, ok |-> FALSE]

\* _get_connection: psycopg2.connect(...) when self.conn is None or closed,
\* else the connection at hand.  up tells whether the server accepts a
\* connection; connect raises when it does not, and self.conn stays.
_get_connection(c, up) ==
    IF c.state \in {"none", "closed"}
    THEN IF up THEN [conn |-> [state |-> "open", in_txn |-> FALSE, held |-> c.held + 1],
                     ok |-> TRUE]
         ELSE [conn |-> c, ok |-> FALSE]
    ELSE [conn |-> c, ok |-> TRUE]

\* cursor.execute: the first statement on an idle connection opens a
\* transaction.  conn.commit() and conn.rollback() end it.
execute(c) == [c EXCEPT !.in_txn = TRUE]
commit(c) == [c EXCEPT !.in_txn = FALSE]
rollback(c) == [c EXCEPT !.in_txn = FALSE]
\* A statement on a lost connection raises OperationalError and psycopg2
\* marks the connection closed; rollback() on it raises InterfaceError.
broken(c) == [state |-> "closed", in_txn |-> FALSE, held |-> c.held - 1]

\* The outcome of a call on the handler: the connection it leaves, the store
\* it leaves committed, whether it returned and the position of the item
\* that raised (0: none, or the exception came from the connection).
Outcome(c, r) == [conn |-> c, d |-> r.d, ok |-> r.ok, failed |-> r.failed]

\* save_items / update_completed_items around their batch: `if not items:
\* return`, conn = self._get_connection() (outside the try), then the try
\* block: the statements of the batch, conn.commit(), or conn.rollback() and
\* raise.  tables tells whether the schema exists: without it the first
\* statement raises UndefinedTable.
batch(op, stored, items) ==
    IF op = "save_items" THEN save_items(stored, items)
    ELSE update_completed_items(stored, items)

on_connection(c, up, tables, stored, items, op) ==
    IF items = <<>> THEN Outcome(c, Returned(stored))
    ELSE Eval(_get_connection(c, up), LAMBDA g :
            IF ~g.ok THEN Outcome(g.conn, Raised(stored, 0))
            ELSE IF g.conn.state = "lost" THEN Outcome(broken(g.conn), Raised(stored, 0))
            ELSE IF ~tables THEN Outcome(rollback(execute(g.conn)), Raised(stored, 1))
            ELSE Eval(batch(op, stored, items), LAMBDA r :
                    Outcome(IF r.ok THEN commit(execute(g.conn))
                                    ELSE rollback(execute(g.conn)), r)))

(* --------------------------- observed listings ------------------------- *)

\* What the listing source hands to the store (EbayInterface is outside the
\* model: any sequence of these records can come back from a fetch).  An
\* item is observed in one of two snapshots; every fact the code reads
\* differs between them, the ones it never rewrites included.
Snapshots == {1, 2}

SellerFacts(uid, n) ==
    [ebay_user_id |-> uid,
     rating |-> IF n = 1 THEN "4.5" ELSE "4.9",
     feedback_score |-> IF n = 1 THEN "10" ELSE Absent]

Bid(amount, time) ==
    [amount |-> amount, time |-> time, bidder_id |-> Absent, winning_bid |-> Absent]

Bid120 == Bid("120.00", "t1")
Bid150 == Bid("150.00", "t2")
\* A bid record without 'amount'.
BidNoAmount == Bid(Absent, "t3")

NoSpecifics == [k \in {} |-> ""]
SpecificsOf(n) ==
    IF n = 1 THEN [k \in {"A"} |-> "1"] ELSE [k \in {"A", "B"} |-> "2"]
BidsOf(n) == IF n = 1 THEN <<>> ELSE <<Bid120>>

Listing(item_id, uid, n, specifics, bs) ==
    [item_id |-> item_id,
     title |-> IF n = 1 THEN "RTX 3090" ELSE "RTX 3090 FE",
     url |-> IF n = 1 THEN "itm/1" ELSE "itm/2",
     seller |-> SellerFacts(uid, n),
     search_pattern |-> IF n = 1 THEN "rtx 3090" ELSE "3090",
     description |-> IF n = 1 THEN Absent ELSE "boxed",
     condition |-> IF n = 1 THEN "used" ELSE "new",
     current_price |-> IF n = 1 THEN "100.00" ELSE "120.00",
     buy_it_now_price |-> IF n = 1 THEN Absent ELSE "200.00",
     shipping_cost |-> IF n = 1 THEN "10.00" ELSE "0.00",
     num_bids |-> IF n = 1 THEN Absent ELSE "2",
     auction_end_time |-> IF n = 1 THEN "t8" ELSE "t9",
     auction_start_time |-> IF n = 1 THEN "t0" ELSE Absent,
     auction_status |-> "active",
     item_specifics |-> specifics,
     bids |-> bs]

\* Item i1 of seller s1 as observed in either snapshot, with its item
\* specifics and bid history; item i2 of seller s2, a plain listing.
GoodListings ==
    {Listing("i1", "s1", n, SpecificsOf(n), BidsOf(n)) : n \in Snapshots}
    \cup {Listing("i2", "s2", 1, NoSpecifics, <<>>)}

\* A listing without 'item_id' (its seller is resolved before the KeyError)
\* and a listing whose bid history holds a bid without 'amount' (seller,
\* auction and item specifics are written before the KeyError).
ListingNoItemId == Listing(Absent, "s2", 2, NoSpecifics, <<>>)
ListingBadBid == Listing("i2", "s2", 2, SpecificsOf(1), <<BidNoAmount>>)
BadListings == {ListingNoItemId, ListingBadBid}

Listings == GoodListings \cup BadListings

Completion(item_id, final_price, num_bids, bs) ==
    [item_id |-> item_id, final_price |-> final_price, num_bids |-> num_bids, bids |-> bs]

\* A completion of item i2 whose last bid has no 'amount': it raises KeyError
\* when i2 is tracked, and touches nothing when it is not.
CompletionBadBid == Completion("i2", "80.00", "1", <<Bid120, BidNoAmount>>)

\* The completion of item i1 with its bid history, the completion of item i2
\* without one, a completion without 'item_id' and the one with a bad last
\* bid.  Either item is tracked or not at the time, as the store has it.
Completions ==
    {Completion("i1", "150.00", "2", <<Bid120, Bid150>>),
     Completion("i2", Absent, Absent, <<>>),
     Completion(Absent, "99.00", "1", <<>>),
     CompletionBadBid}

\* All sequences over S of length at most n.
SeqsUpTo(S, n) == UNION {[1..k -> S] : k \in 0..n}

\* The batch of three whose second item has no 'item_id'.
BatchWithBadSecond ==
    <<Listing("i1", "s1", 1, SpecificsOf(1), BidsOf(1)),
      ListingNoItemId,
      Listing("i2", "s2", 1, NoSpecifics, <<>>)>>

\* Item i2 observed with a status other than 'active' (save_item stores
\* whatever item['auction_status'] holds).
ListingEnded ==
    [Listing("i2", "s2", 1, NoSpecifics, <<>>) EXCEPT !.auction_status = "ended"]

ActiveBatches ==
    SeqsUpTo(Listings, MaxBatchLen) \cup {BatchWithBadSecond, <<ListingEnded>>}
CompletedBatches == SeqsUpTo(Completions, MaxBatchLen)

(* ----------------------- the store as a state machine ------------------ *)

committed == Store(sellers, auctions, item_specifics, bids)

Commit(d) ==
    /\ sellers' = d.sellers
    /\ auctions' = d.auctions
    /\ item_specifics' = d.item_specifics
    /\ bids' = d.bids

\* The last call on the DatabaseHandler as its caller and the log see it:
\* the operation, the length of the batch, whether it raised, and the
\* position of the item that raised.
Call(op, items, r) == [op |-> op, n |-> Len(items), raised |-> ~r.ok, failed |-> r.failed]
NoCall == [op |-> "none", n |-> 0, raised |-> FALSE, failed |-> 0]

\* The command line: --initialize-db and --daemon.
Args(initialize_db, daemon) == [initialize_db |-> initialize_db, daemon |-> daemon]

\* No cycle has started and no sleep was computed.
NoTimes == elapsed = 0 /\ sleep_time = 0 /\ remaining = 0

\* After initialize_schema on an empty database, with no call made yet: the
\* handler holds the connection initialize_schema opened.
Init ==
    /\ sellers = {} /\ auctions = {} /\ item_specifics = {} /\ bids = {}
    /\ call = NoCall
    /\ conn = OpenConnection /\ schema = TRUE
    /\ pc = "idle" /\ running = TRUE /\ fetched = <<>> /\ log = "none"
    /\ NoTimes /\ args = Args(TRUE, FALSE)

\* db.save_items(items), for any batch of observed listings, on a server
\* that stays up.
SaveItems(items) ==
    \E r \in {on_connection(conn, TRUE, schema, committed, items, "save_items")} :
        /\ Cardinality(r.d.bids) <= MaxBidRows
        /\ Commit(r.d)
        /\ conn' = r.conn
        /\ call' = Call("save_items", items, r)
        /\ UNCHANGED <<schema, loopvars>>

\* db.update_completed_items(items), for any batch of observed completions.
UpdateCompletedItems(items) ==
    \E r \in {on_connection(conn, TRUE, schema, committed, items, "update_completed_items")} :
        /\ Cardinality(r.d.bids) <= MaxBidRows
        /\ Commit(r.d)
        /\ conn' = r.conn
        /\ call' = Call("update_completed_items", items, r)
        /\ UNCHANGED <<schema, loopvars>>

Next ==
    \/ \E items \in ActiveBatches : SaveItems(items)
    \/ \E items \in CompletedBatches : UpdateCompletedItems(items)

Spec == Init /\ [][Next]_vars

(* ------------------------------ run_daemon ----------------------------- *)

\* Longest batch a fetch of the daemon returns.
MaxFetchLen == 1

\* What the daemon's fetches return: item i1 as first observed or a listing
\* without 'item_id'; the completion of i1 or one without 'item_id'.
FetchedActive ==
    SeqsUpTo({Listing("i1", "s1", 1, SpecificsOf(1), BidsOf(1)), ListingNoItemId}, MaxFetchLen)
FetchedCompleted ==
    SeqsUpTo({Completion("i1", "150.00", "2", <<Bid120, Bid150>>),
              Completion(Absent, "99.00", "1", <<>>)}, MaxFetchLen)

\* pc is the place of the program's control.  In run_daemon:
\*   "loop"                    the test of `while running`
\*   "fetch_active"            in ebay.search_active_items
\*   "save_items"              about to call db.save_items(active_items)
\*   "fetch_completed"         in ebay.get_completed_items
\*   "update_completed_items"  about to call db.update_completed_items
\*   "cycle_end"               the cycle's log line, sleep_time, `if running`
\*   "sleep"                   in time.sleep(sleep_time)
\*   "fallback_sleep"          in the except clause's time.sleep(60)
\*   "stopped"                 the loop was left
\* fetched is the batch a fetch returned and the store has not been handed
\* yet; log is the last line the loop body logged ("processed": line 125,
\* "error": line 136).
InCycle == {"fetch_active", "save_items", "fetch_completed", "update_completed_items"}
InLoop == InCycle \cup {"loop", "cycle_end", "sleep", "fallback_sleep"}

\* Time is counted in seconds: elapsed is time.time() - start_time, the time
\* since the current cycle started; sleep_time is the local of line 129;
\* remaining is what is left of the time.sleep call in progress.
\* config['daemon']['polling_interval'], in minutes.
PollingMinutes == 1
\* polling_interval, line 95.
polling_interval == PollingMinutes * 60
\* time.sleep(60) of the except clause.
ErrorDelay == 60
\* How long a fetch or a store call takes, and the slices a sleep passes in.
Durations == {0, 30}

\* sleep_time as it would be without max(0, ...).
sleep_time_unclamped(interval, d) == interval - d

\* Line 129: sleep_time = max(0, polling_interval - elapsed).
sleep_time_for(interval, d) ==
    IF 0 >= interval - d THEN 0 ELSE interval - d

\* run_daemon up to the loop, on an initialized empty database: the handler
\* was constructed and has not connected yet.
DaemonInit ==
    /\ sellers = {} /\ auctions = {} /\ item_specifics = {} /\ bids = {}
    /\ call = NoCall
    /\ conn = NoConnection /\ schema = TRUE
    /\ pc = "loop" /\ running = TRUE /\ fetched = <<>> /\ log = "start"
    /\ NoTimes /\ args = Args(FALSE, TRUE)

\* signal_handler: `running = False`, and the interrupted code resumes where
\* it was (the handler returns normally, so a blocking call is resumed:
\* time.sleep goes on sleeping for what is left of its duration).
signal_handler_raising(at) == [running |-> FALSE, pc |-> "stopped"]

signal_handler(at) == [running |-> FALSE, pc |-> at]

\* SIGINT or SIGTERM delivered while run_daemon is in its loop.
Signal ==
    /\ pc \in InLoop
    /\ running' = signal_handler(pc).running
    /\ pc' = signal_handler(pc).pc
    /\ UNCHANGED <<dbvars, call, fetched, log, conn, schema, timevars, args>>

\* The server end of the handler's connection goes away.
ConnectionLost ==
    /\ pc \in InLoop
    /\ conn.state = "open"
    /\ conn' = [conn EXCEPT !.state = "lost"]
    /\ UNCHANGED <<dbvars, call, schema, loopvars>>

\* `except Exception as e:` of the loop body: log the error, then
\* time.sleep(60).
except_clause_reraising == [pc |-> "stopped", log |-> "error", remaining |-> 0]

\* The except clause as it would be without the time.sleep(60).
except_clause_no_delay == [pc |-> "fallback_sleep", log |-> "error", remaining |-> 0]

except_clause == [pc |-> "fallback_sleep", log |-> "error", remaining |-> ErrorDelay]

\* `while running:` and, inside the loop, start_time = time.time().
LoopTest ==
    /\ pc = "loop"
    /\ pc' = IF running THEN "fetch_active" ELSE "stopped"
    /\ elapsed' = IF running THEN 0 ELSE elapsed
    /\ UNCHANGED <<dbvars, call, running, fetched, log, conn, schema,
                   sleep_time, remaining, args>>

\* ebay.search_active_items(...) returns a batch.  Only batches the bids
\* table has room for are drawn.
FetchActive ==
    /\ pc = "fetch_active"
    /\ \E items \in FetchedActive :
          /\ Cardinality(save_items(committed, items).d.bids) <= MaxBidRows
          /\ fetched' = items
    /\ \E dt \in Durations : elapsed' = elapsed + dt
    /\ pc' = "save_items"
    /\ UNCHANGED <<dbvars, call, running, log, conn, schema, sleep_time, remaining, args>>

\* ebay.get_completed_items(...) returns a batch.
FetchCompleted ==
    /\ pc = "fetch_completed"
    /\ \E items \in FetchedCompleted :
          /\ Cardinality(update_completed_items(committed, items).d.bids) <= MaxBidRows
          /\ fetched' = items
    /\ \E dt \in Durations : elapsed' = elapsed + dt
    /\ pc' = "update_completed_items"
    /\ UNCHANGED <<dbvars, call, running, log, conn, schema, sleep_time, remaining, args>>

\* Either fetch raises (the listing source is unreachable).
FetchRaises ==
    /\ pc \in {"fetch_active", "fetch_completed"}
    /\ \E dt \in Durations : elapsed' = elapsed + dt
    /\ pc' = except_clause.pc
    /\ log' = except_clause.log
    /\ remaining' = except_clause.remaining
    /\ UNCHANGED <<dbvars, call, running, fetched, conn, schema, sleep_time, args>>

\* db.save_items(active_items)
DaemonSaveItems ==
    /\ pc = "save_items"
    /\ \E up \in BOOLEAN :
         \E r \in {on_connection(conn, up, schema, committed, fetched, "save_items")} :
           /\ Commit(r.d)
           /\ conn' = r.conn
           /\ call' = Call("save_items", fetched, r)
           /\ pc' = IF r.ok THEN "fetch_completed" ELSE except_clause.pc
           /\ log' = IF r.ok THEN log ELSE except_clause.log
           /\ remaining' = IF r.ok THEN remaining ELSE except_clause.remaining
    /\ \E dt \in Durations : elapsed' = elapsed + dt
    /\ fetched' = <<>>
    /\ UNCHANGED <<running, schema, sleep_time, args>>

\* db.update_completed_items(completed_items) and the cycle's log line.
DaemonUpdateCompletedItems ==
    /\ pc = "update_completed_items"
    /\ \E up \in BOOLEAN :
         \E r \in {on_connection(conn, up, schema, committed, fetched,
                                 "update_completed_items")} :
           /\ Commit(r.d)
           /\ conn' = r.conn
           /\ call' = Call("update_completed_items", fetched, r)
           /\ pc' = IF r.ok THEN "cycle_end" ELSE except_clause.pc
           /\ log' = IF r.ok THEN "processed" ELSE except_clause.log
           /\ remaining' = IF r.ok THEN remaining ELSE except_clause.remaining
    /\ \E dt \in Durations : elapsed' = elapsed + dt
    /\ fetched' = <<>>
    /\ UNCHANGED <<running, schema, sleep_time, args>>

\* Lines 128-133 after a cycle that raised nothing: elapsed, sleep_time, and
\* time.sleep(sleep_time) entered `if running`.
CycleEnd ==
    /\ pc = "cycle_end"
    /\ sleep_time' = sleep_time_for(polling_interval, elapsed)
    /\ pc' = IF running THEN "sleep" ELSE "loop"
    /\ remaining' = IF running THEN sleep_time' ELSE remaining
    /\ UNCHANGED <<dbvars, call, running, fetched, log, conn, schema, elapsed, args>>

\* A slice of a time.sleep passes.
SleepTick ==
    /\ pc \in {"sleep", "fallback_sleep"}
    /\ \E dt \in Durations :
          /\ 0 < dt /\ dt <= remaining
          /\ remaining' = remaining - dt
          /\ elapsed' = elapsed + dt
    /\ UNCHANGED <<dbvars, call, pc, running, fetched, log, conn, schema, sleep_time, args>>

\* time.sleep(sleep_time) or time.sleep(60) returns, its duration over.
SleepReturns ==
    /\ pc \in {"sleep", "fallback_sleep"}
    /\ remaining = 0
    /\ pc' = "loop"
    /\ UNCHANGED <<dbvars, call, running, fetched, log, conn, schema, timevars, args>>

DaemonStep ==
    \/ LoopTest
    \/ FetchActive
    \/ FetchCompleted
    \/ FetchRaises
    \/ DaemonSaveItems
    \/ DaemonUpdateCompletedItems
    \/ CycleEnd
    \/ SleepTick
    \/ SleepReturns

DaemonNext == DaemonStep \/ Signal \/ ConnectionLost

\* The process keeps running (it is scheduled, a fetch returns or raises, a
\* sleep ends); when a signal arrives or the connection is lost is up to the
\* environment.
DaemonSpec == DaemonInit /\ [][DaemonNext]_vars /\ WF_vars(DaemonStep)

(* --------------------------- main and run_once ------------------------- *)

\* In main and run_once, pc is
\*   "main"                         parse_arguments ... load_config
\*   "initialize_schema"            about to call db.initialize_schema()
\*   "dispatch"                     `if args.daemon:` (line 159), and the
\*                                  DatabaseHandler the mode constructs
\*   "once_fetch_active", "once_save_items", "once_fetch_completed",
\*   "once_update_completed_items"  the four calls of run_once
\*   "exited"                       main returned
\*   "crashed"                      an exception left main
InOnce == {"once_fetch_active", "once_save_items", "once_fetch_completed",
           "once_update_completed_items"}

\* The store an earlier run left: item i1 as first observed.
SeededStore ==
    save_items(EmptyStore, <<Listing("i1", "s1", 1, SpecificsOf(1), BidsOf(1))>>).d

\* The process starts with any command line, on a database without the
\* schema or with it, empty or holding the rows of an earlier run.
MainInit ==
    /\ args \in {Args(i, d) : i, d \in BOOLEAN}
    /\ schema \in BOOLEAN
    /\ \E st \in (IF schema THEN {EmptyStore, SeededStore} ELSE {EmptyStore}) :
          /\ sellers = st.sellers /\ auctions = st.auctions
          /\ item_specifics = st.item_specifics /\ bids = st.bids
    /\ call = NoCall
    /\ conn = NoConnection
    /\ pc = "main" /\ running = TRUE /\ fetched = <<>> /\ log = "start"
    /\ NoTimes

\* initialize_schema as it would be with DROP TABLE before each CREATE TABLE.
initialize_schema_recreating(tables, stored) == [tables |-> TRUE, d |-> EmptyStore]

\* initialize_schema: CREATE TABLE IF NOT EXISTS and CREATE INDEX IF NOT
\* EXISTS, then commit: the tables exist afterwards, and a table that existed
\* keeps its rows.
initialize_schema(tables, stored) == [tables |-> TRUE, d |-> stored]

\* main, lines 142-151.
Main ==
    /\ pc = "main"
    /\ pc' = IF args.initialize_db THEN "initialize_schema" ELSE "dispatch"
    /\ UNCHANGED <<dbvars, call, running, fetched, log, conn, schema, timevars, args>>

\* main, lines 152-156: db = DatabaseHandler(...); db.initialize_schema();
\* return unless --daemon.  The handler connects; when it cannot, the
\* exception leaves main.
InitializeSchema ==
    /\ pc = "initialize_schema"
    /\ \E up \in BOOLEAN :
         \E g \in {_get_connection(NoConnection, up)} :
            IF g.ok
            THEN \E r \in {initialize_schema(schema, committed)} :
                    /\ schema' = r.tables
                    /\ Commit(r.d)
                    /\ conn' = commit(execute(g.conn))
                    /\ pc' = IF args.daemon THEN "dispatch" ELSE "exited"
                    /\ log' = "initialized"
            ELSE /\ pc' = "crashed"
                 /\ conn' = g.conn
                 /\ UNCHANGED <<dbvars, schema, log>>
    /\ UNCHANGED <<call, running, fetched, timevars, args>>

\* main, lines 159-162: run_daemon(config) or run_once(config), each of which
\* constructs its own DatabaseHandler (self.conn = None).
Dispatch ==
    /\ pc = "dispatch"
    /\ pc' = IF args.daemon THEN "loop" ELSE "once_fetch_active"
    /\ conn' = NoConnection
    /\ UNCHANGED <<dbvars, call, running, fetched, log, schema, timevars, args>>

\* run_once as it would be with its body in a loop.
run_once_next_looping(at, ok) ==
    IF ~ok THEN "crashed"
    ELSE CASE at = "once_fetch_active" -> "once_save_items"
           [] at = "once_save_items" -> "once_fetch_completed"
           [] at = "once_fetch_completed" -> "once_update_completed_items"
           [] OTHER -> "once_fetch_active"

\* Where run_once goes after the call at `at`: to the next call, out of main
\* after the last one, and out of main with the exception when the call
\* raised (run_once and main catch nothing).
run_once_next(at, ok) ==
    IF ~ok THEN "crashed"
    ELSE CASE at = "once_fetch_active" -> "once_save_items"
           [] at = "once_save_items" -> "once_fetch_completed"
           [] at = "once_fetch_completed" -> "once_update_completed_items"
           [] OTHER -> "exited"

\* ebay.search_active_items / ebay.get_completed_items of run_once returns a
\* batch.
OnceFetch ==
    /\ pc \in {"once_fetch_active", "once_fetch_completed"}
    /\ \E items \in (IF pc = "once_fetch_active" THEN FetchedActive ELSE FetchedCompleted) :
          fetched' = items
    /\ pc' = run_once_next(pc, TRUE)
    /\ UNCHANGED <<dbvars, call, running, log, conn, schema, timevars, args>>

\* Either fetch of run_once raises.
OnceFetchRaises ==
    /\ pc \in {"once_fetch_active", "once_fetch_completed"}
    /\ pc' = run_once_next(pc, FALSE)
    /\ UNCHANGED <<dbvars, call, running, fetched, log, conn, schema, timevars, args>>

\* db.save_items(active_items) / db.update_completed_items(completed_items)
\* of run_once, and after the latter the log line and the return.
OnceStore ==
    /\ pc \in {"once_save_items", "once_update_completed_items"}
    /\ \E up \in BOOLEAN :
         \E op \in {IF pc = "once_save_items" THEN "save_items"
                    ELSE "update_completed_items"} :
           \E r \in {on_connection(conn, up, schema, committed, fetched, op)} :
              /\ Commit(r.d)
              /\ conn' = r.conn
              /\ call' = Call(op, fetched, r)
              /\ pc' = run_once_next(pc, r.ok)
              /\ log' = IF r.ok /\ op = "update_completed_items" THEN "processed" ELSE log
    /\ fetched' = <<>>
    /\ UNCHANGED <<running, schema, timevars, args>>

\* run_daemon returns to main, which logs and returns.
RunDaemonReturns ==
    /\ pc = "stopped"
    /\ pc' = "exited"
    /\ UNCHANGED <<dbvars, call, running, fetched, log, conn, schema, timevars, args>>

MainStep ==
    \/ Main
    \/ InitializeSchema
    \/ Dispatch
    \/ OnceFetch
    \/ OnceFetchRaises
    \/ OnceStore
    \/ RunDaemonReturns
    \/ DaemonStep

MainNext == MainStep \/ Signal \/ ConnectionLost

MainSpec == MainInit /\ [][MainNext]_vars /\ WF_vars(MainStep)

(* ------------------------- claims about the store ---------------------- *)

AuctionsOf(d, item_id) == {a \in d.auctions : a.item_id = item_id}
SellersOf(d, uid) == {s \in d.sellers : s.ebay_user_id = uid}

\* C1: after any sequence of save_items and update_completed_items calls,
\* returned or raised, no two seller rows share an ebay_user_id and no two
\* auction rows share an item_id.
C1_UniqueBusinessKeys ==
    /\ \A s, t \in sellers : s.ebay_user_id = t.ebay_user_id => s = t
    /\ \A a, b \in auctions : a.item_id = b.item_id => a = b

\* Both items are stored, and i1 was inserted from its first snapshot and
\* updated from its second, so its seller and its row were looked up again.
C1_Witness ==
    /\ Cardinality(auctions) = 2
    /\ Cardinality(sellers) = 2
    /\ \E a \in auctions :
          a.item_id = "i1" /\ a.search_pattern = "rtx 3090" /\ a.title = "RTX 3090 FE"

\* C2: an auction's status only moves from active to completed: a row that is
\* completed is still completed after every call, a later active batch that
\* observes the item again included.
C2_StatusNeverBackward ==
    [][\A a \in auctions : \A b \in auctions' :
          (a.item_id = b.item_id /\ a.auction_status = "completed")
              => b.auction_status = "completed"]_vars

\* The stored content without surrogate keys: sellers by user id, auctions by
\* item id with the seller's user id, item specifics by item id and key, and
\* for every bid tuple the number of rows that hold it.
ItemIdOf(d, auction_id) == (CHOOSE a \in d.auctions : a.id = auction_id).item_id
UserIdOf(d, seller_id) == (CHOOSE s \in d.sellers : s.id = seller_id).ebay_user_id
BidTuple(d, b) == <<ItemIdOf(d, b.auction_id), b.bid_amount, b.bid_time, b.bidder_id, b.winning_bid>>
Content(d) ==
    [sellers |-> {[s EXCEPT !.id = 0] : s \in d.sellers},
     auctions |-> {<<[a EXCEPT !.id = 0, !.seller_id = 0], UserIdOf(d, a.seller_id)>> : a \in d.auctions},
     item_specifics |-> {<<ItemIdOf(d, r.auction_id), r.spec_key, r.spec_value>> : r \in d.item_specifics},
     bids |-> {<<t, Cardinality({b \in d.bids : BidTuple(d, b) = t})>> :
                  t \in {BidTuple(d, b) : b \in d.bids}}]

\* C3: applying an active batch a second time leaves the stored content
\* (timestamps and surrogate keys aside) as the first application left it.
C3_SaveItemsIdempotent ==
    \A items \in ActiveBatches :
        LET once == save_items(committed, items)
            twice == save_items(once.d, items)
        IN  Content(twice.d) = Content(once.d)

\* A listing some statement of save_item raises on, whatever the store holds:
\* a key read with item[...] is missing.
Malformed(item) ==
    \/ item.seller.ebay_user_id = Absent
    \/ item.item_id = Absent
    \/ item.title = Absent \/ item.url = Absent \/ item.auction_status = Absent
    \/ \E i \in 1..Len(item.bids) : item.bids[i].amount = Absent \/ item.bids[i].time = Absent

SellerWritten(d, item) ==
    \E s \in SellersOf(d, item.seller.ebay_user_id) :
        /\ s.rating = Get(item.seller.rating)
        /\ s.feedback_score = Get(item.seller.feedback_score)
AuctionWritten(d, item) ==
    \E a \in AuctionsOf(d, item.item_id) :
        /\ UserIdOf(d, a.seller_id) = item.seller.ebay_user_id
        /\ a.title = item.title /\ a.url = item.url
        /\ a.current_price = Get(item.current_price)
        /\ a.num_bids = GetOr(item.num_bids, "0")
        /\ a.auction_status = item.auction_status
SpecificsWritten(d, item) ==
    \A key \in DOMAIN item.item_specifics :
        \E a \in AuctionsOf(d, item.item_id) : \E r \in d.item_specifics :
            r.auction_id = a.id /\ r.spec_key = key /\ r.spec_value = item.item_specifics[key]
BidsWritten(d, item) ==
    \A i \in 1..Len(item.bids) :
        \E a \in AuctionsOf(d, item.item_id) : \E b \in d.bids :
            /\ b.auction_id = a.id
            /\ b.bid_amount = item.bids[i].amount /\ b.bid_time = item.bids[i].time
AllWritten(d, item) ==
    SellerWritten(d, item) /\ AuctionWritten(d, item)
        /\ SpecificsWritten(d, item) /\ BidsWritten(d, item)

\* The rows of a listing exist in store d, whatever a later listing of the
\* same batch made of their values.
RowsPresent(d, item) ==
    /\ SellersOf(d, item.seller.ebay_user_id) # {}
    /\ \E a \in AuctionsOf(d, item.item_id) :
          /\ \A key \in DOMAIN item.item_specifics :
                \E r \in d.item_specifics : r.auction_id = a.id /\ r.spec_key = key
          /\ \A i \in 1..Len(item.bids) :
                \E b \in d.bids : /\ b.auction_id = a.id
                                  /\ b.bid_amount = item.bids[i].amount
                                  /\ b.bid_time = item.bids[i].time

\* C5: the writes of an item are atomic in the committed store.  Whatever
\* batch is applied and whatever statement of whatever item raises, the store
\* the call leaves committed holds either every write of the item (the call
\* returned: the rows of each item exist, and the last item's facts are the
\* stored ones) or none of them (the call raised: the store is the one before
\* the call).
C5_ItemWritesAtomic ==
    \A items \in ActiveBatches :
        LET r == save_items(committed, items)
        IN  IF r.ok
            THEN \A k \in 1..Len(items) :
                    /\ RowsPresent(r.d, items[k])
                    /\ k = Len(items) => AllWritten(r.d, items[k])
            ELSE r.d = committed

\* The second item of a batch of two raised after the first had been written
\* in the same transaction, on a store that already holds committed rows.
C5_Witness ==
    /\ call.op = "save_items" /\ call.raised /\ call.n = 2 /\ call.failed = 2
    /\ auctions # {}

\* C6: a completion for an item id that is not tracked, or whose auction is
\* already completed, changes nothing and raises nothing.
C6_CompletionOfCompletedOrUnknownIsNoOp ==
    \A c \in Completions :
        (/\ c.item_id # Absent
         /\ \A a \in AuctionsOf(committed, c.item_id) : a.auction_status = "completed")
            => update_completed_items(committed, <<c>>) = Returned(committed)

\* C7: no two bid rows hold the same (auction, amount, time, bidder).
C7_NoDuplicateBidRows ==
    \A b1, b2 \in bids :
        (/\ b1.auction_id = b2.auction_id /\ b1.bid_amount = b2.bid_amount
         /\ b1.bid_time = b2.bid_time /\ b1.bidder_id = b2.bidder_id)
            => b1 = b2

SpecKeys == {"A", "B"}
SpecificRows(d, auction_id, key) ==
    {r \in d.item_specifics : r.auction_id = auction_id /\ r.spec_key = key}

\* C8: the item specifics of an auction hold one row per key at most, and a
\* successful observation of the auction leaves, for every key it carries,
\* exactly one row with the observed value, and for every key it does not
\* carry the rows the auction had before.
C8_SpecificsMerged ==
    /\ \A r1, r2 \in item_specifics :
          (r1.auction_id = r2.auction_id /\ r1.spec_key = r2.spec_key) => r1 = r2
    /\ \A item \in Listings :
          LET r == save_items(committed, <<item>>)
          IN  r.ok =>
                \A a \in AuctionsOf(r.d, item.item_id) : \A key \in SpecKeys :
                    SpecificRows(r.d, a.id, key) =
                        IF key \in DOMAIN item.item_specifics
                        THEN {[auction_id |-> a.id, spec_key |-> key,
                               spec_value |-> item.item_specifics[key]]}
                        ELSE SpecificRows(committed, a.id, key)

\* Item i1 was observed with {A: 2, B: 2} and then with {A: 1}: A holds the
\* later value and B, missing from the later observation, is kept.
C8_Witness ==
    \E a \in auctions :
        /\ a.item_id = "i1"
        /\ SpecificRows(committed, a.id, "A")
              = {[auction_id |-> a.id, spec_key |-> "A", spec_value |-> "1"]}
        /\ SpecificRows(committed, a.id, "B")
              = {[auction_id |-> a.id, spec_key |-> "B", spec_value |-> "2"]}

\* C11: the completion of a tracked active auction returns, sets the row's
\* status to completed, its current price to the final price and its bid
\* count to the final count, and changes no other row or field; with a bid
\* history it adds exactly one bid row, the last bid of the history with the
\* winning flag set, and none for the earlier bids; without one it adds none.
LastBid(c) == c.bids[Len(c.bids)]
WinningBidReadable(c) ==
    c.bids = <<>> \/ (LastBid(c).amount # Absent /\ LastBid(c).time # Absent)

C11_CompletionFinalizes ==
    \A c \in Completions : \A a \in AuctionsOf(committed, c.item_id) :
        (a.auction_status = "active" /\ WinningBidReadable(c))
            => LET r == update_completed_items(committed, <<c>>)
               IN  /\ r.ok
                   /\ r.d.auctions = (auctions \ {a}) \cup
                          {[a EXCEPT !.auction_status = "completed",
                                     !.current_price = Get(c.final_price),
                                     !.num_bids = GetOr(c.num_bids, "0")]}
                   /\ r.d.sellers = sellers /\ r.d.item_specifics = item_specifics
                   /\ bids \subseteq r.d.bids
                   /\ r.d.bids \ bids =
                          IF c.bids = <<>> THEN {}
                          ELSE {[id |-> NextId(bids),
                                 auction_id |-> a.id,
                                 bid_amount |-> LastBid(c).amount,
                                 bid_time |-> LastBid(c).time,
                                 bidder_id |-> Get(LastBid(c).bidder_id),
                                 winning_bid |-> TRUE]}

\* Item i1, never observed with a bid, was completed at 150.00 with the
\* history [120, 150]: its only bid row is the winning bid of 150.
C11_Witness ==
    /\ call.op = "update_completed_items" /\ ~call.raised
    /\ \E a \in auctions :
          /\ a.item_id = "i1" /\ a.auction_status = "completed"
          /\ a.current_price = "150.00" /\ a.num_bids = "2"
          /\ \E b \in bids : /\ bids = {b}
                              /\ b.auction_id = a.id /\ b.bid_amount = "150.00"
                              /\ b.winning_bid = TRUE

\* A completion some statement of update_completed_items raises on, given the
\* store: 'item_id' is missing, or the item is tracked and the last bid of
\* its history lacks 'amount' or 'time'.
BadCompletion(d, c) ==
    \/ c.item_id = Absent
    \/ AuctionsOf(d, c.item_id) # {} /\ ~WinningBidReadable(c)

C18_InsertedActiveUpdatedMutableOnly ==
    [][call'.op = "save_items" =>
          \A b \in auctions' :
              IF AuctionsOf(committed, b.item_id) = {}
              THEN b.auction_status = "active"
              ELSE \A a \in AuctionsOf(committed, b.item_id) :
                      /\ b.id = a.id
                      /\ b.search_pattern = a.search_pattern
                      /\ b.auction_end_time = a.auction_end_time
                      /\ b.auction_start_time = a.auction_start_time]_vars

\* C21: a call that raises leaves the committed store as it was before the
\* call, for save_items and for update_completed_items alike: whenever a
\* call on the handler ends with an exception, no table has changed, whatever
\* the items before the failing one had written; and a call that changed a
\* table returned.
C21_RaisedCallChangesNothing ==
    [][/\ call'.raised => UNCHANGED dbvars
       /\ ~(UNCHANGED dbvars) => (~call'.raised /\ call'.failed = 0 /\ call'.n > 0)
       /\ call'.raised => (call'.failed \in 1..call'.n)]_vars

\* The batch of three raised on its second item, on a store that held item
\* i1 as last observed in snapshot 2: the first item of the batch, i1 as in
\* snapshot 1, had rewritten that row, and the row is as it was.
C21_Witness ==
    /\ call.op = "save_items" /\ call.raised /\ call.n = 3 /\ call.failed = 2
    /\ \E a \in auctions : a.item_id = "i1" /\ a.title = "RTX 3090 FE"
                           /\ a.current_price = "120.00"

C24_ReferencesResolve ==
    /\ \A a \in auctions : \E s \in sellers : s.id = a.seller_id
    /\ \A i \in item_specifics : \E a \in auctions : a.id = i.auction_id
    /\ \A b \in bids : \E a \in auctions : a.id = b.auction_id

\* Two auctions of two sellers, item specifics, a bid from a listing and the
\* winning bid of a completion are stored, and the last batch raised.
C24_Witness ==
    /\ call.raised
    /\ Cardinality(sellers) = 2 /\ Cardinality(auctions) = 2
    /\ item_specifics # {}
    /\ \E b, w \in bids : ~b.winning_bid /\ w.winning_bid

(* ------------------------ claims about run_daemon ---------------------- *)

\* C9: the loop is left only after a shutdown request.  A fetch or a store
\* call that raises inside a cycle takes the loop to the fallback delay, the
\* delay is followed by the loop test, the loop test starts a new cycle while
\* running is set, and the loop never stops while running is set; a cycle
\* that failed is followed by a new cycle or by a shutdown request.
C9_LoopSurvivesFailedCycles ==
    /\ [][/\ pc' = "stopped" => ~running'
          /\ (pc \in InCycle /\ pc' \notin InCycle \cup {"cycle_end"})
                => (pc' = "fallback_sleep" /\ log' = "error")
          /\ (pc \in {"save_items", "update_completed_items"} /\ pc' # pc /\ call'.raised)
                => (pc' = "fallback_sleep" /\ log' = "error")
          /\ (pc = "fallback_sleep" /\ pc' # pc) => pc' = "loop"
          /\ (pc = "loop" /\ running /\ pc' # pc) => pc' = "fetch_active"]_vars
    /\ (pc = "fallback_sleep" /\ running) ~> (pc = "fetch_active" \/ ~running)

\* A new cycle runs after a cycle whose store call raised.
C9_Witness ==
    /\ pc = "fetch_active" /\ running
    /\ log = "error" /\ call.raised

\* C10: a shutdown signal changes the running flag and nothing else, so the
\* cycle in progress goes on through its phases (only an exception ends it
\* early); no cycle is started once running is cleared, and once it is
\* cleared the loop reaches the stopped state.
C10_ShutdownIsCooperative ==
    /\ [][/\ (running /\ ~running')
                => UNCHANGED <<pc, dbvars, call, fetched, log, conn, timevars>>
          /\ (pc # "fetch_active" /\ pc' = "fetch_active") => running
          /\ (pc = "fetch_active" /\ pc' # pc) => pc' \in {"save_items", "fallback_sleep"}
          /\ (pc = "save_items" /\ pc' # pc) => pc' \in {"fetch_completed", "fallback_sleep"}
          /\ (pc = "fetch_completed" /\ pc' # pc)
                => pc' \in {"update_completed_items", "fallback_sleep"}
          /\ (pc = "update_completed_items" /\ pc' # pc)
                => pc' \in {"cycle_end", "fallback_sleep"}]_vars
    /\ (~running) ~> (pc = "stopped")

\* The request arrived before the completed phase of a cycle, and the cycle
\* is still going: the completed batch is about to be applied.
C10_Witness ==
    /\ ~running /\ pc = "update_completed_items" /\ fetched # <<>>
    /\ call.op = "save_items"

\* C13: the sleep computed after a cycle that raised nothing is
\* max(0, T - d) for the interval T and the cycle's duration d: T - d when
\* d < T, 0 when d >= T, never negative; when the sleep is over, the time
\* since the cycle started is max(T, d).  (While the loop sleeps, d is the
\* time since the cycle's start less what was slept.)
C13_SleepIsDriftCorrected ==
    pc = "sleep" =>
        LET d == elapsed - (sleep_time - remaining)
        IN  /\ sleep_time >= 0
            /\ sleep_time = IF d < polling_interval THEN polling_interval - d ELSE 0
            /\ remaining = 0 => elapsed = IF d > polling_interval THEN d ELSE polling_interval

\* A cycle took longer than the interval and the loop entered a sleep of 0.
C13_Witness ==
    /\ pc = "sleep" /\ elapsed > polling_interval /\ sleep_time = 0
    /\ log = "processed"

\* C14: a shutdown request that arrives during the inter-cycle sleep
\* interrupts it: once running is cleared in the sleep, no more of the sleep
\* passes before the loop leaves it.
C14_SignalInterruptsSleep ==
    [][(pc = "sleep" /\ ~running) => UNCHANGED <<elapsed, remaining>>]_vars

\* The row of item i1 in store d was inserted from listing x and then
\* updated from listing y.
InsertedThenUpdated(d, x, y) ==
    \E a \in AuctionsOf(d, "i1") :
        /\ a.search_pattern = x.search_pattern
        /\ a.auction_end_time = x.auction_end_time
        /\ a.auction_start_time = Get(x.auction_start_time)
        /\ a.title = y.title /\ a.url = y.url
        /\ a.current_price = Get(y.current_price)

\* C19: cycles run one after another and a cycle runs its phases in order.
\* A cycle starts only from the loop test, which is reached only from the
\* end of a cycle, a sleep or the fallback delay; the phases follow each
\* other as fetch active, save_items, fetch completed,
\* update_completed_items; the completed batch is applied only after the
\* active batch of the same cycle was committed; and the items of a batch are
\* written in batch order (of two observations of a new item in one batch,
\* the first inserts the row and the second updates it).
C19_CyclesSequentialInOrder ==
    /\ [][/\ (pc' = "fetch_active" /\ pc' # pc) => pc = "loop"
          /\ (pc' = "loop" /\ pc' # pc) => pc \in {"cycle_end", "sleep", "fallback_sleep"}
          /\ (pc' = "save_items" /\ pc' # pc) => pc = "fetch_active"
          /\ (pc' = "fetch_completed" /\ pc' # pc)
                => (pc = "save_items" /\ call'.op = "save_items" /\ ~call'.raised)
          /\ (pc' = "update_completed_items" /\ pc' # pc) => pc = "fetch_completed"
          /\ (pc = "update_completed_items" /\ pc' # pc)
                => (call.op = "save_items" /\ ~call.raised
                    /\ call'.op = "update_completed_items")
          /\ (pc' = "cycle_end" /\ pc' # pc) => pc = "update_completed_items"]_vars
    /\ [](AuctionsOf(committed, "i1") = {} =>
            \A m, n \in Snapshots :
                LET x == Listing("i1", "s1", m, SpecificsOf(m), BidsOf(m))
                    y == Listing("i1", "s1", n, SpecificsOf(n), BidsOf(n))
                    r == save_items(committed, <<x, y>>)
                IN  r.ok /\ InsertedThenUpdated(r.d, x, y))

\* A cycle is in its second phase after an earlier cycle had run to its end.
C19_Witness ==
    /\ pc = "fetch_completed" /\ log = "processed"
    /\ call.op = "save_items" /\ ~call.raised /\ call.n = 1

\* C20: the handler holds at most one connection and leaves no transaction
\* open.  It connects on the first call that has a batch to write, a call
\* on an open connection keeps that connection, the number of connections
\* held grows only when self.conn was None or closed, and after every call,
\* returned or raised, no transaction is open on the connection.
C20_OneConnectionNoOpenTransaction ==
    /\ [](/\ conn.held <= 1
          /\ ~conn.in_txn
          /\ conn.held = 1 <=> conn.state \in {"open", "lost"})
    /\ [][/\ conn'.held > conn.held
                => (conn.state \in {"none", "closed"} /\ conn'.state = "open")
          /\ (conn.state = "none" /\ conn' # conn)
                => (pc \in {"save_items", "update_completed_items"} /\ fetched # <<>>)
          /\ (conn.state = "open" /\ pc' # pc) => conn' = conn
          /\ (conn.state \in {"none", "closed"} /\ pc' # pc /\ fetched # <<>>
                /\ pc \in {"save_items", "update_completed_items"} /\ ~call'.raised)
                => conn' = OpenConnection]_vars

\* A batch failed and was rolled back on the connection, which is still the
\* handler's open connection when the next cycle is about to write.
C20_Witness ==
    /\ call.op = "save_items" /\ call.raised /\ call.failed = 1
    /\ conn = OpenConnection
    /\ pc = "save_items" /\ fetched # <<>>

\* C22: the two phases of a cycle are not one unit.  When the active fetch
\* or db.save_items raises, control goes to the except clause: the wait is
\* the fixed ErrorDelay seconds, no drift-corrected sleep is computed, and
\* from that wait the loop goes to its test only, when the whole delay has
\* passed, so the completed fetch and write of that cycle never run.  The
\* completed phase starts on the store as db.save_items committed it, and a
\* completed phase that raises leaves that store as it is.
C22_PhasesNotAtomic ==
    [][/\ (pc = "fetch_active" /\ pc' \notin {"fetch_active", "save_items"})
            => (pc' = "fallback_sleep" /\ remaining' = ErrorDelay
                /\ sleep_time' = sleep_time /\ UNCHANGED <<dbvars, call>>)
       /\ (pc = "save_items" /\ pc' # pc /\ call'.raised)
            => (pc' = "fallback_sleep" /\ remaining' = ErrorDelay
                /\ sleep_time' = sleep_time /\ UNCHANGED dbvars)
       /\ pc = "fallback_sleep"
            => /\ pc' \in {"fallback_sleep", "loop"}
               /\ pc' = "loop" => remaining = 0
               /\ remaining' <= remaining
               /\ elapsed' - elapsed = remaining - remaining'
               /\ UNCHANGED <<dbvars, call, sleep_time>>
       /\ (pc = "save_items" /\ pc' = "fetch_completed")
            => /\ ~call'.raised
               /\ Store(sellers', auctions', item_specifics', bids')
                     = save_items(committed, fetched).d
       /\ (pc \in {"fetch_completed", "update_completed_items"}
             /\ pc' # "cycle_end")
            => UNCHANGED dbvars]_vars

\* db.update_completed_items raised and the fallback delay begins, with
\* item i1 in the store as the active phase wrote it: tracked and active,
\* never completed.
C22_Witness ==
    /\ pc = "fallback_sleep" /\ remaining = ErrorDelay /\ log = "error"
    /\ call.op = "update_completed_items" /\ call.raised
    /\ bids = {}
    /\ \E a \in auctions : a.item_id = "i1" /\ a.auction_status = "active"

(* ----------------------- claims about main and run_once ---------------- *)

\* C15: the only failure that ends the process without a shutdown request is
\* a failure to initialize the schema: an exception leaves main only from
\* db.initialize_schema(), never from a fetch or a store call of a cycle, in
\* daemon mode and in one-shot mode alike.
C15_OnlySchemaFailureIsFatal ==
    [][(pc' = "crashed" /\ pc' # pc) => pc = "initialize_schema"]_vars

\* C16: run_once runs one cycle and returns.  It is entered once, its four
\* calls follow each other as fetch active, save_items, fetch completed,
\* update_completed_items (an exception ends the run), it never reaches the
\* loop test, a sleep or a second cycle, it returns right after
\* update_completed_items returned, with no time slept, and a run that was
\* started ends.
C16_RunOnceIsOneCycle ==
    /\ [][/\ (pc' = "once_fetch_active" /\ pc' # pc) => pc = "dispatch"
          /\ (pc = "once_fetch_active" /\ pc' # pc)
                => pc' \in {"once_save_items", "crashed"}
          /\ (pc = "once_save_items" /\ pc' # pc)
                => (/\ call'.op = "save_items"
                    /\ pc' = IF call'.raised THEN "crashed" ELSE "once_fetch_completed")
          /\ (pc = "once_fetch_completed" /\ pc' # pc)
                => pc' \in {"once_update_completed_items", "crashed"}
          /\ (pc = "once_update_completed_items" /\ pc' # pc)
                => (/\ call'.op = "update_completed_items"
                    /\ pc' = IF call'.raised THEN "crashed" ELSE "exited")
          /\ (pc \in InOnce \/ pc' \in InOnce)
                => (~args.daemon /\ pc' \notin InLoop /\ UNCHANGED timevars)
          /\ pc \in {"exited", "crashed"} => pc' = pc]_vars
    /\ (pc = "once_fetch_active") ~> (pc \in {"exited", "crashed"})

\* run_once returned after a cycle that stored item i1 and completed it.
C16_Witness ==
    /\ pc = "exited" /\ ~args.daemon /\ ~args.initialize_db
    /\ call.op = "update_completed_items" /\ ~call.raised /\ call.n = 1
    /\ log = "processed"
    /\ \E a \in auctions : a.item_id = "i1" /\ a.auction_status = "completed"

\* C17 as stated: with --initialize-db the process initializes the schema
\* and exits without a fetch or a batch apply, and the initialization leaves
\* every stored row as it was.
C17_InitializeOnlyNeverRunsACycle ==
    [][/\ args.initialize_db => (pc' \notin InLoop \cup InOnce /\ call' = NoCall)
       /\ (pc = "initialize_schema" /\ pc' # pc) => UNCHANGED dbvars]_vars

\* C17 as amended: with --initialize-db and without --daemon the process
\* initializes the schema and exits without a fetch or a batch apply; with
\* --daemon as well it goes on to run_daemon after the initialization; in
\* both cases the initialization leaves every stored row as it was and the
\* schema in place.
C17_InitializeOnlyUnlessDaemon ==
    [][/\ (args.initialize_db /\ ~args.daemon)
            => (/\ pc' \in {"main", "initialize_schema", "exited", "crashed"}
                /\ call' = NoCall /\ fetched' = <<>>)
       /\ (pc = "initialize_schema" /\ pc' # pc)
            => (/\ UNCHANGED dbvars
                /\ pc' # "crashed" => schema'
                /\ pc' = IF pc' = "crashed" THEN "crashed"
                         ELSE IF args.daemon THEN "dispatch" ELSE "exited")
       /\ (args.initialize_db /\ pc' = "dispatch" /\ pc' # pc)
            => (args.daemon /\ pc = "initialize_schema")]_vars

\* The schema was initialized on a database that held the rows of an earlier
\* run, and the process exited: the rows are there.
C17_Witness ==
    /\ pc = "exited" /\ args = Args(TRUE, FALSE)
    /\ log = "initialized" /\ schema
    /\ committed = SeededStore /\ call = NoCall

====
